---------------------------- MODULE Spec2Model ----------------------------
(***************************************************************************)
(* A model of the flight scanner: the field parsers of BaseFlightScraper,  *)
(* the four source adapters, the scraper factory, validate_config, and the *)
(* main pipeline of FlightScannerAgent (construct, search with fallback,   *)
(* sort, truncate, display, save).                                         *)
(*                                                                         *)
(* Text that the code inspects character by character (price, duration,    *)
(* time and date strings) is a sequence of one-character strings; text it  *)
(* only copies (airline, stops, website) is a plain string.  A number that *)
(* may be float('inf') is a pair: Fin(n) or INF.                           *)
(***************************************************************************)
EXTENDS Integers, Sequences, FiniteSets, TLC

VARIABLES
    env,          \* the interpreter's surroundings: is Selenium importable, are annotations lazy
    config,       \* the parsed config.json
    pc,           \* position of main()
    idx,          \* position of the for loop in websites_to_try (1-based)
    scraper,      \* the scraper created in this iteration, "none" outside
    created,      \* history: the positions whose create_scraper was called
    queried,      \* history: the positions whose search_flights was called
    outcomes,     \* history: per queried position, what the source answered
    all_flights,  \* search_flights' local list
    result,       \* what search_flights returned (empty before it returns)
    search_state, \* search_flights: "idle", "running", "returned" or "raised"
    exit_code,    \* the process's exit status (-1 while running)
    out,          \* what was reported to the user, in order
    p_text,       \* parser development: the input text
    p_fn,         \* parser development: which parser ran
    p_out,        \* parser development: what it returned
    g_source,     \* generator development: the source passed to _generate_flight
    g_destination, \* generator development: the destination passed
    g_draw,       \* generator development: what the random module handed out
    g_flight      \* generator development: the record returned (empty before the call)

vars == <<env, config, pc, idx, scraper, created, queried, outcomes, all_flights,
          result, search_state, exit_code, out, p_text, p_fn, p_out,
          g_source, g_destination, g_draw, g_flight>>

pipeline_vars == <<env, config, pc, idx, scraper, created, queried, outcomes,
                   all_flights, result, search_state, exit_code, out>>

parser_vars == <<p_text, p_fn, p_out>>

generator_vars == <<g_source, g_destination, g_draw, g_flight>>

----------------------------------------------------------------------------
(* Characters, strings and numbers                                         *)

Digits == {"0", "1", "2", "3", "4", "5", "6", "7", "8", "9"}

\* int() of one decimal digit
DigitVal(c) ==
    CASE c = "0" -> 0 [] c = "1" -> 1 [] c = "2" -> 2 [] c = "3" -> 3
      [] c = "4" -> 4 [] c = "5" -> 5 [] c = "6" -> 6 [] c = "7" -> 7
      [] c = "8" -> 8 [] c = "9" -> 9

\* ord() of the characters that take part in a comparison of strings
Ord(c) ==
    CASE c = " " -> 32 [] c = "$" -> 36 [] c = "+" -> 43 [] c = "," -> 44
      [] c = "-" -> 45 [] c = "." -> 46 [] c = "/" -> 47
      [] c \in Digits -> 48 + DigitVal(c)
      [] c = ":" -> 58 [] c = "A" -> 65 [] c = "M" -> 77 [] c = "N" -> 78
      [] c = "P" -> 80 [] c = "a" -> 97 [] c = "h" -> 104 [] c = "m" -> 109
      [] c = "p" -> 112

\* str < str: Python compares strings code point by code point, a proper prefix first
RECURSIVE StrLT(_, _)
StrLT(a, b) ==
    IF b = <<>> THEN FALSE
    ELSE IF a = <<>> THEN TRUE
    ELSE IF Ord(Head(a)) # Ord(Head(b)) THEN Ord(Head(a)) < Ord(Head(b))
    ELSE StrLT(Tail(a), Tail(b))

\* float('inf'), and a finite number
INF == <<1, 0>>
Fin(n) == <<0, n>>
IsNum(v) == v = INF \/ (Len(v) = 2 /\ v[1] = 0 /\ v[2] \in Int)
IsFinite(v) == v[1] = 0

\* number < number, float('inf') above every finite number
NumLT(a, b) == a[1] < b[1] \/ (a[1] = b[1] /\ a[2] < b[2])

\* str.replace(ch, '')
Remove(s, ch) == SelectSeq(s, LAMBDA c : c # ch)

\* str.strip()
RECURSIVE LStrip(_)
LStrip(s) == IF s # <<>> /\ Head(s) = " " THEN LStrip(Tail(s)) ELSE s
RECURSIVE RStrip(_)
RStrip(s) ==
    IF s # <<>> /\ s[Len(s)] = " " THEN RStrip(SubSeq(s, 1, Len(s) - 1)) ELSE s
Strip(s) == RStrip(LStrip(s))

\* int() / float() of a run of decimal digits
RECURSIVE ToNat(_)
ToNat(ds) ==
    IF ds = <<>> THEN 0
    ELSE 10 * ToNat(SubSeq(ds, 1, Len(ds) - 1)) + DigitVal(ds[Len(ds)])

\* the end of the maximal run of characters of class cls that starts at i
RECURSIVE RunEnd(_, _, _)
RunEnd(s, i, cls) ==
    IF i < Len(s) /\ s[i + 1] \in cls THEN RunEnd(s, i + 1, cls) ELSE i

\* re.findall(r'[<cls>]+', s): the list of maximal runs, from position i on
RECURSIVE FindRuns(_, _, _)
FindRuns(s, i, cls) ==
    IF i > Len(s) THEN <<>>
    ELSE IF s[i] \in cls
         THEN LET j == RunEnd(s, i, cls)
              IN  <<SubSeq(s, i, j)>> \o FindRuns(s, j + 1, cls)
         ELSE FindRuns(s, i + 1, cls)

\* re.findall(r'(\d+)<ch>', s): the digit runs directly followed by ch, from i on
RECURSIVE FindBefore(_, _, _)
FindBefore(s, i, ch) ==
    IF i > Len(s) THEN <<>>
    ELSE IF s[i] \in Digits
         THEN LET j == RunEnd(s, i, Digits)
              IN  IF j < Len(s) /\ s[j + 1] = ch
                  THEN <<SubSeq(s, i, j)>> \o FindBefore(s, j + 2, ch)
                  ELSE FindBefore(s, j + 1, ch)
         ELSE FindBefore(s, i + 1, ch)

NA == <<"N", "/", "A">>

----------------------------------------------------------------------------
(* BaseFlightScraper: the field parsers                                    *)

\* float(text) raises ValueError unless text is a number; here text is a run of [\d,]
FloatOk(run) == \A k \in 1..Len(run) : run[k] \in Digits

\* faulty variant of _parse_price: the thousands separators are left in the text
_parse_price_keeps_commas(price_text) ==
    IF price_text = <<>> THEN <<NA, INF>>
    ELSE LET numeric_price == FindRuns(price_text, 1, Digits \cup {","})
         IN  IF numeric_price # <<>> /\ FloatOk(numeric_price[1])
             THEN <<Strip(price_text), Fin(ToNat(numeric_price[1]))>>
             ELSE <<Strip(price_text), INF>>

_parse_price(price_text) ==
    IF price_text = <<>> THEN <<NA, INF>>
    ELSE LET numeric_price == FindRuns(Remove(price_text, ","), 1, Digits \cup {","})
         IN  IF numeric_price # <<>> /\ FloatOk(numeric_price[1])
             THEN <<Strip(price_text), Fin(ToNat(numeric_price[1]))>>
             ELSE <<Strip(price_text), INF>>

\* faulty variant of _parse_duration: a zero total is returned as 0, not as float('inf')
_parse_duration_zero_total(duration_text) ==
    IF duration_text = <<>> THEN <<NA, INF>>
    ELSE LET hours   == FindBefore(duration_text, 1, "h")
             minutes == FindBefore(duration_text, 1, "m")
             total_minutes ==
                 (IF hours # <<>> THEN ToNat(hours[1]) * 60 ELSE 0)
                 + (IF minutes # <<>> THEN ToNat(minutes[1]) ELSE 0)
         IN  <<Strip(duration_text), Fin(total_minutes)>>

_parse_duration(duration_text) ==
    IF duration_text = <<>> THEN <<NA, INF>>
    ELSE LET hours   == FindBefore(duration_text, 1, "h")
             minutes == FindBefore(duration_text, 1, "m")
             total_minutes ==
                 (IF hours # <<>> THEN ToNat(hours[1]) * 60 ELSE 0)
                 + (IF minutes # <<>> THEN ToNat(minutes[1]) ELSE 0)
         IN  <<Strip(duration_text),
               IF total_minutes > 0 THEN Fin(total_minutes) ELSE INF>>

----------------------------------------------------------------------------
(* utils.validate_config                                                   *)

\* dict.get(key, default)
Get(d, key, default) == IF key \in DOMAIN d THEN d[key] ELSE default

\* str.split(sep): the pieces of s between the occurrences of sep
RECURSIVE Split(_, _)
Split(s, sep) ==
    IF \A k \in 1..Len(s) : s[k] # sep THEN <<s>>
    ELSE LET k == CHOOSE n \in 1..Len(s) : s[n] = sep /\ \A m \in 1..(n - 1) : s[m] # sep
         IN  <<SubSeq(s, 1, k - 1)>> \o Split(SubSeq(s, k + 1, Len(s)), sep)

AllDigits(s) == \A k \in 1..Len(s) : s[k] \in Digits

IsLeap(y) == (y % 4 = 0 /\ y % 100 # 0) \/ y % 400 = 0

DaysInMonth(y, m) ==
    IF m = 2 THEN (IF IsLeap(y) THEN 29 ELSE 28)
    ELSE IF m \in {4, 6, 9, 11} THEN 30 ELSE 31

\* datetime.strptime(text, '%Y-%m-%d') returns (TRUE) or raises ValueError (FALSE):
\* %Y is four digits, %m is 1[0-2]|0[1-9]|[1-9], %d is 3[01]|[12]\d|0[1-9]|[1-9]| [1-9],
\* the whole text must match, and the date must exist.
StrptimeOk(text) ==
    LET parts == Split(text, "-")
    IN  /\ Len(parts) = 3
        /\ Len(parts[1]) = 4 /\ AllDigits(parts[1])
        /\ Len(parts[2]) \in {1, 2} /\ AllDigits(parts[2])
        /\ \/ Len(parts[3]) \in {1, 2} /\ AllDigits(parts[3])
           \/ Len(parts[3]) = 2 /\ parts[3][1] = " " /\ parts[3][2] \in Digits
        /\ LET y == ToNat(parts[1])
               m == ToNat(parts[2])
               d == ToNat(LStrip(parts[3]))
           IN  /\ y >= 1
               /\ m \in 1..12
               /\ d >= 1 /\ d <= DaysInMonth(y, m)

\* Python truthiness of a config value that is a string or absent (None)
None == <<"None">>
Truthy(v) == v # <<>> /\ v # None

required_keys == <<"flight_search", "websites", "search_settings", "browser_settings">>
required_flight_keys == <<"source", "destination", "travel_date">>
supported_websites == {"kayak", "expedia", "booking"}

\* validate_config(config): "ok" when it returns, else the ValueError it raises
validate_config(cfg) ==
    IF \E k \in 1..Len(required_keys) : required_keys[k] \notin DOMAIN cfg
    THEN "Missing required configuration key"
    ELSE LET flight_search == cfg["flight_search"]
         IN  IF \E k \in 1..Len(required_flight_keys) :
                    \/ required_flight_keys[k] \notin DOMAIN flight_search
                    \/ ~Truthy(flight_search[required_flight_keys[k]])
             THEN "Missing required flight search parameter"
             ELSE IF ~StrptimeOk(flight_search["travel_date"])
             THEN "Invalid travel_date format"
             ELSE IF /\ Truthy(Get(flight_search, "return_date", None))
                     /\ ~StrptimeOk(flight_search["return_date"])
             THEN "Invalid return_date format"
             ELSE IF "primary" \notin DOMAIN cfg["websites"]
             THEN "Missing primary website"
             ELSE IF cfg["websites"]["primary"] \notin supported_websites
             THEN "Unsupported primary website"
             ELSE "ok"

----------------------------------------------------------------------------
(* flight_scrapers: the Kayak, Expedia and Booking adapters                *)

\* d[key] = value on a dict
SetKey(d, key, value) ==
    [k \in DOMAIN d \cup {key} |-> IF k = key THEN value ELSE d[k]]

\* list[:n]: the first n items, or all but the last -n when n is negative
PySlice(s, n) ==
    IF n >= 0 THEN SubSeq(s, 1, IF n < Len(s) THEN n ELSE Len(s))
    ELSE SubSeq(s, 1, IF Len(s) + n > 0 THEN Len(s) + n ELSE 0)

\* what a search_flights call hands back: a list, or an exception
Returned(flights) == [raised |-> FALSE, flights |-> flights]
Raised == [raised |-> TRUE, flights |-> <<>>]

\* the finally clause of the Kayak and Expedia adapters: driver.quit() runs once a
\* driver exists, and an exception it raises replaces the return
Finally(run, flights) == IF run.quit = "raise" THEN Raised ELSE Returned(flights)

\* _parse_kayak_flight(element, source, destination): Optional[Dict] as a list of
\* one record, or the empty list for the None it returns when an element lookup raised
_parse_kayak_flight(element, source, destination) ==
    IF element.broken THEN <<>>
    ELSE LET time_elements == element.times
             d == _parse_duration(element.duration_text)
             p == _parse_price(element.price_text)
         IN <<[airline           |-> element.airline,
              departure_time    |-> IF Len(time_elements) > 0 THEN time_elements[1] ELSE NA,
              arrival_time      |-> IF Len(time_elements) > 1 THEN time_elements[2] ELSE NA,
              duration          |-> d[1],
              duration_minutes  |-> d[2],
              price             |-> p[1],
              price_numeric     |-> p[2],
              stops             |-> element.stops,
              departure_airport |-> source,
              arrival_airport   |-> destination]>>

\* the loop over flight_elements[:max_results] of KayakScraper.search_flights
RECURSIVE KayakParseAll(_, _, _)
KayakParseAll(elements, source, destination) ==
    IF elements = <<>> THEN <<>>
    ELSE LET flight_data == _parse_kayak_flight(Head(elements), source, destination)
             rest == KayakParseAll(Tail(elements), source, destination)
         IN  IF flight_data # <<>>
             THEN <<SetKey(flight_data[1], "website", "Kayak")>> \o rest
             ELSE rest

\* KayakScraper.search_flights under one run of the browser
KayakSearch(cfg, run, source, destination) ==
    IF run.setup = "raise" THEN Returned(<<>>)
    ELSE IF run.get = "raise" THEN Finally(run, <<>>)
    ELSE IF run.wait = "timeout" THEN Finally(run, <<>>)
    ELSE IF "max_results" \notin DOMAIN cfg["search_settings"] THEN Finally(run, <<>>)
    ELSE Finally(run, KayakParseAll(
             PySlice(run.elements, cfg["search_settings"]["max_results"]),
             source, destination))

\* _parse_expedia_flight(element): a fixed sample record
_parse_expedia_flight ==
    [airline          |-> "Sample Airline",
     departure_time   |-> <<"1", "0", ":", "0", "0", " ", "A", "M">>,
     arrival_time     |-> <<"2", ":", "0", "0", " ", "P", "M">>,
     duration         |-> <<"4", "h", " ", "0", "m">>,
     duration_minutes |-> Fin(240),
     price            |-> <<"$", "3", "0", "0">>,
     price_numeric    |-> Fin(300),
     stops            |-> "Nonstop"]

\* ExpediaScraper.search_flights under one run of the browser; run.get stands for
\* driver.get and _fill_expedia_form, which re-raises
ExpediaSearch(cfg, run) ==
    IF run.setup = "raise" THEN Returned(<<>>)
    ELSE IF run.get = "raise" THEN Finally(run, <<>>)
    ELSE IF run.wait = "timeout" THEN Finally(run, <<>>)
    ELSE IF "max_results" \notin DOMAIN cfg["search_settings"] THEN Finally(run, <<>>)
    ELSE LET shown == PySlice(run.elements, cfg["search_settings"]["max_results"])
         IN  Finally(run, [k \in 1..Len(shown) |->
                              SetKey(_parse_expedia_flight, "website", "Expedia")])

\* BookingScraper.search_flights: one fixed sample record
BookingSearch ==
    Returned(<<[airline          |-> "Sample Airline",
                departure_time   |-> <<"1", "2", ":", "0", "0", " ", "P", "M">>,
                arrival_time     |-> <<"4", ":", "0", "0", " ", "P", "M">>,
                duration         |-> <<"4", "h", " ", "0", "m">>,
                duration_minutes |-> Fin(240),
                price            |-> <<"$", "3", "5", "0">>,
                price_numeric    |-> Fin(350),
                stops            |-> "1 stop",
                website          |-> "Booking.com"]>>)

----------------------------------------------------------------------------
(* demo_scraper.DemoFlightScraper                                          *)

\* str(n) of a natural number, and of an integer
RECURSIVE NatToStr(_)
NatToStr(n) ==
    LET digit == CHOOSE c \in Digits : DigitVal(c) = n % 10
    IN  IF n < 10 THEN <<digit>> ELSE NatToStr(n \div 10) \o <<digit>>
IntToStr(n) == IF n < 0 THEN <<"-">> \o NatToStr(0 - n) ELSE NatToStr(n)

\* f"{n:02d}" of a natural number
Pad2(n) == IF n < 10 THEN <<"0">> \o NatToStr(n) ELSE NatToStr(n)

\* str.upper() of one character: the ASCII letters, every other character unchanged
LowerLetters == <<"a", "b", "c", "d", "e", "f", "g", "h", "i", "j", "k", "l", "m",
                  "n", "o", "p", "q", "r", "s", "t", "u", "v", "w", "x", "y", "z">>
UpperLetters == <<"A", "B", "C", "D", "E", "F", "G", "H", "I", "J", "K", "L", "M",
                  "N", "O", "P", "Q", "R", "S", "T", "U", "V", "W", "X", "Y", "Z">>
UpperChar(c) ==
    IF \E k \in 1..26 : LowerLetters[k] = c
    THEN UpperLetters[CHOOSE k \in 1..26 : LowerLetters[k] = c]
    ELSE c
Upper(s) == [k \in 1..Len(s) |-> UpperChar(s[k])]

NYC == <<"N", "Y", "C">>
LAX == <<"L", "A", "X">>
CHI == <<"C", "H", "I">>
MIA == <<"M", "I", "A">>
SEA == <<"S", "E", "A">>

\* self.airlines: airline -> (lowest, highest) base price
airlines ==
    [a \in {"American Airlines", "Delta Air Lines", "United Airlines",
            "Southwest Airlines", "JetBlue Airways", "Alaska Airlines",
            "Spirit Airlines", "Frontier Airlines"} |->
        CASE a = "American Airlines"  -> <<200, 800>>
          [] a = "Delta Air Lines"    -> <<220, 850>>
          [] a = "United Airlines"    -> <<210, 820>>
          [] a = "Southwest Airlines" -> <<150, 600>>
          [] a = "JetBlue Airways"    -> <<180, 700>>
          [] a = "Alaska Airlines"    -> <<190, 750>>
          [] a = "Spirit Airlines"    -> <<100, 400>>
          [] a = "Frontier Airlines"  -> <<120, 450>>]

\* self.flight_durations: (source, destination) -> (shortest, longest) minutes
flight_durations ==
    [r \in {<<NYC, LAX>>, <<NYC, CHI>>, <<LAX, CHI>>, <<NYC, MIA>>, <<LAX, SEA>>} |->
        CASE r = <<NYC, LAX>> -> <<330, 390>>
          [] r = <<NYC, CHI>> -> <<150, 180>>
          [] r = <<LAX, CHI>> -> <<240, 280>>
          [] r = <<NYC, MIA>> -> <<180, 220>>
          [] r = <<LAX, SEA>> -> <<150, 180>>]

\* faulty variant of DurationRange: the reverse direction of a route is not looked up
DurationRange_one_way(source, destination) ==
    LET route_key == <<Upper(source), Upper(destination)>>
    IN  IF route_key \in DOMAIN flight_durations THEN flight_durations[route_key]
        ELSE <<120, 480>>

\* the duration_range _generate_flight picks for a route
DurationRange(source, destination) ==
    LET route_key == <<Upper(source), Upper(destination)>>
        reverse_route_key == <<Upper(destination), Upper(source)>>
    IN  IF route_key \in DOMAIN flight_durations THEN flight_durations[route_key]
        ELSE IF reverse_route_key \in DOMAIN flight_durations
        THEN flight_durations[reverse_route_key]
        ELSE <<120, 480>>

\* the values the random module can hand _generate_flight in one call
ValidDraw(d, source, destination) ==
    /\ d.airline \in DOMAIN airlines
    /\ d.base_price >= airlines[d.airline][1] /\ d.base_price <= airlines[d.airline][2]
    /\ d.jitter \in (0 - 50)..100
    /\ d.duration_minutes >= DurationRange(source, destination)[1]
    /\ d.duration_minutes <= DurationRange(source, destination)[2]
    /\ d.departure_hour \in 6..22
    /\ d.departure_minute \in {0, 15, 30, 45}
    /\ d.stops \in {"Nonstop", "1 stop", "2 stops"}
    /\ d.stops = "Nonstop" => d.adjust \in 50..150
    /\ d.stops = "2 stops" => d.adjust \in 30..100
    /\ d.stops = "1 stop" => d.adjust = 0

\* faulty variant of _generate_flight: an arrival at exactly midnight gets no " +1"
_generate_flight_late_marker(source, destination, travel_date, d) ==
    LET duration_minutes == d.duration_minutes
        hours == duration_minutes \div 60
        minutes == duration_minutes % 60
        arrival == d.departure_hour * 60 + d.departure_minute + duration_minutes
        price_numeric ==
            d.base_price + d.jitter
            + (IF d.stops = "Nonstop" THEN d.adjust
               ELSE IF d.stops = "2 stops" THEN 0 - d.adjust ELSE 0)
    IN  [airline           |-> d.airline,
         departure_time    |-> Pad2(d.departure_hour) \o <<":">> \o Pad2(d.departure_minute),
         arrival_time      |-> Pad2((arrival \div 60) % 24) \o <<":">> \o Pad2(arrival % 60)
                               \o (IF arrival > 1440 THEN <<" ", "+", "1">> ELSE <<>>),
         duration          |-> IntToStr(hours) \o <<"h", " ">> \o IntToStr(minutes) \o <<"m">>,
         duration_minutes  |-> Fin(duration_minutes),
         price             |-> <<"$">> \o IntToStr(price_numeric),
         price_numeric     |-> Fin(price_numeric),
         stops             |-> d.stops,
         departure_airport |-> Upper(source),
         arrival_airport   |-> Upper(destination),
         website           |-> "Demo Data"]

\* _generate_flight(source, destination, travel_date) with the random draws d
_generate_flight(source, destination, travel_date, d) ==
    LET duration_minutes == d.duration_minutes
        hours == duration_minutes \div 60
        minutes == duration_minutes % 60
        arrival == d.departure_hour * 60 + d.departure_minute + duration_minutes
        price_numeric ==
            d.base_price + d.jitter
            + (IF d.stops = "Nonstop" THEN d.adjust
               ELSE IF d.stops = "2 stops" THEN 0 - d.adjust ELSE 0)
    IN  [airline           |-> d.airline,
         departure_time    |-> Pad2(d.departure_hour) \o <<":">> \o Pad2(d.departure_minute),
         arrival_time      |-> Pad2((arrival \div 60) % 24) \o <<":">> \o Pad2(arrival % 60)
                               \o (IF arrival >= 1440 THEN <<" ", "+", "1">> ELSE <<>>),
         duration          |-> IntToStr(hours) \o <<"h", " ">> \o IntToStr(minutes) \o <<"m">>,
         duration_minutes  |-> Fin(duration_minutes),
         price             |-> <<"$">> \o IntToStr(price_numeric),
         price_numeric     |-> Fin(price_numeric),
         stops             |-> d.stops,
         departure_airport |-> Upper(source),
         arrival_airport   |-> Upper(destination),
         website           |-> "Demo Data"]

----------------------------------------------------------------------------
(* list.sort(key=...): stable, ascending                                   *)

\* the key the lambda of each sort_by branch reads from a record
SortKey(x, sort_key) ==
    CASE sort_key = "price"          -> Get(x, "price_numeric", INF)
      [] sort_key = "duration"       -> Get(x, "duration_minutes", INF)
      [] sort_key = "departure_time" -> Get(x, "departure_time", <<>>)

\* key(a) < key(b): numbers for price and duration, strings for departure_time
KeyLT(sort_key, a, b) ==
    IF sort_key = "departure_time"
    THEN StrLT(SortKey(a, sort_key), SortKey(b, sort_key))
    ELSE NumLT(SortKey(a, sort_key), SortKey(b, sort_key))

\* insert x into the sorted list, after every item whose key is not greater
RECURSIVE InsertSorted(_, _, _)
InsertSorted(sorted, x, sort_key) ==
    IF sorted = <<>> THEN <<x>>
    ELSE IF KeyLT(sort_key, x, Head(sorted)) THEN <<x>> \o sorted
    ELSE <<Head(sorted)>> \o InsertSorted(Tail(sorted), x, sort_key)

RECURSIVE ListSort(_, _)
ListSort(s, sort_key) ==
    IF s = <<>> THEN <<>>
    ELSE InsertSorted(ListSort(SubSeq(s, 1, Len(s) - 1), sort_key), s[Len(s)], sort_key)

\* DemoFlightScraper.search_flights with the random draws of its calls, in order
DemoSearch(cfg, draws, source, destination, travel_date) ==
    IF "max_results" \notin DOMAIN cfg["search_settings"] THEN Raised
    ELSE Returned(ListSort([k \in 1..Len(draws) |->
                              _generate_flight(source, destination, travel_date, draws[k])],
                           "price"))

\* range(min(max_results, 8)): how many flights the demo scraper generates
DemoCount(cfg) ==
    LET max_results == cfg["search_settings"]["max_results"]
        num_flights == IF max_results < 8 THEN max_results ELSE 8
    IN  IF num_flights > 0 THEN num_flights ELSE 0

----------------------------------------------------------------------------
(* FlightScraperFactory                                                    *)

\* str.lower() of a website name
Lower(website) ==
    CASE website = "Booking" -> "booking" [] website = "Kayak" -> "kayak"
      [] website = "Expedia" -> "expedia" [] OTHER -> website

SCRAPERS == {"kayak", "expedia", "booking"}

\* create_scraper(website, config): the kind of scraper made, or "raise".
\* BaseFlightScraper.__init__ reads timeout and retry_attempts (KeyError when absent);
\* an unknown name gets the demo scraper only when Selenium could not be imported.
create_scraper(website, cfg, e) ==
    IF Lower(website) \in SCRAPERS
    THEN IF {"timeout", "retry_attempts"} \subseteq DOMAIN cfg["search_settings"]
         THEN Lower(website) ELSE "raise"
    ELSE IF ~e.selenium THEN "demo" ELSE "raise"

----------------------------------------------------------------------------
(* FlightScannerAgent.search_flights, after the loop                       *)

\* faulty variant of PostProcess: the result is not cut to max_results
PostProcess_no_limit(flights, cfg) ==
    IF flights = <<>> THEN <<>>
    ELSE LET sort_key == Get(cfg["search_settings"], "sort_by", "price")
         IN  IF sort_key \in {"price", "duration", "departure_time"}
             THEN ListSort(flights, sort_key) ELSE flights

\* faulty variant of PostProcess: the list is cut to max_results before it is sorted
PostProcess_cut_first(flights, cfg) ==
    IF flights = <<>> THEN <<>>
    ELSE LET sort_key == Get(cfg["search_settings"], "sort_by", "price")
             cut == PySlice(flights, Get(cfg["search_settings"], "max_results", 10))
         IN  IF sort_key \in {"price", "duration", "departure_time"}
             THEN ListSort(cut, sort_key) ELSE cut

\* faulty variant of PostProcess: each record returned is given its rank as a field
PostProcess_adds_rank(flights, cfg) ==
    IF flights = <<>> THEN <<>>
    ELSE LET sort_key == Get(cfg["search_settings"], "sort_by", "price")
             sorted == IF sort_key \in {"price", "duration", "departure_time"}
                       THEN ListSort(flights, sort_key) ELSE flights
             cut == PySlice(sorted, Get(cfg["search_settings"], "max_results", 10))
         IN  [k \in 1..Len(cut) |-> SetKey(cut[k], "rank", k)]

\* faulty variant of PostProcess: an unrecognized sort_by falls back to sorting by price
PostProcess_unknown_by_price(flights, cfg) ==
    IF flights = <<>> THEN <<>>
    ELSE LET sort_key == Get(cfg["search_settings"], "sort_by", "price")
             sorted == IF sort_key \in {"price", "duration", "departure_time"}
                       THEN ListSort(flights, sort_key) ELSE ListSort(flights, "price")
         IN  PySlice(sorted, Get(cfg["search_settings"], "max_results", 10))

\* lines 76-91: nothing found, or sort by the configured key and cut to max_results
PostProcess(flights, cfg) ==
    IF flights = <<>> THEN <<>>
    ELSE LET sort_key == Get(cfg["search_settings"], "sort_by", "price")
             sorted == IF sort_key \in {"price", "duration", "departure_time"}
                       THEN ListSort(flights, sort_key) ELSE flights
             max_results == Get(cfg["search_settings"], "max_results", 10)
         IN  PySlice(sorted, max_results)

----------------------------------------------------------------------------
(* Bounds and inputs                                                       *)

MaxFallback == 1      \* longest fallback list
MaxElements == 3      \* most result elements a page shows
MaxLen == 4           \* longest text handed to a parser, beside the examples

Text(chars, n) == UNION {[1..k -> chars] : k \in 0..n}

D_ok        == <<"2", "0", "2", "5", "-", "0", "8", "-", "1", "5">>
D_later     == <<"2", "0", "2", "5", "-", "0", "8", "-", "2", "0">>
D_unpadded  == <<"2", "0", "2", "5", "-", "8", "-", "5">>
D_slashes   == <<"2", "0", "2", "5", "/", "0", "8", "/", "1", "5">>
D_dmy       == <<"1", "5", "-", "0", "8", "-", "2", "0", "2", "5">>
D_no_day    == <<"2", "0", "2", "5", "-", "0", "2", "-", "3", "0">>

FS_ok == [source |-> NYC, destination |-> LAX, travel_date |-> D_ok,
          passengers |-> 1, class |-> "economy"]

\* flight_search sections, valid and not
FlightSearchChoices ==
    { FS_ok,
      SetKey(FS_ok, "return_date", D_later),
      SetKey(FS_ok, "travel_date", D_unpadded),
      SetKey(FS_ok, "travel_date", D_slashes),
      SetKey(FS_ok, "travel_date", D_no_day),
      SetKey(FS_ok, "return_date", D_dmy),
      SetKey(FS_ok, "source", <<>>),
      [source |-> NYC, travel_date |-> D_ok, passengers |-> 1, class |-> "economy"] }

FS_no_passengers == [source |-> NYC, destination |-> LAX, travel_date |-> D_ok,
                     class |-> "economy"]

PrimaryChoices == {"kayak", "expedia", "booking", "Booking", "demo"}
FallbackSites == {"kayak", "Booking", "demo"}
FallbackLists == UNION {[1..k -> FallbackSites] : k \in 0..MaxFallback}

MaxResultsChoices == {0 - 1, 0, 2, 5}
SortByChoices == {"price", "duration", "departure_time", "airline"}

BaseSettings == [timeout |-> 30, retry_attempts |-> 3]
SS_default == [timeout |-> 30, retry_attempts |-> 3, max_results |-> 5, sort_by |-> "price"]

\* search_settings sections: max_results and sort_by each given or absent
SettingsChoices ==
    LET withMax == {BaseSettings} \cup {SetKey(BaseSettings, "max_results", m) :
                                           m \in MaxResultsChoices}
    IN  withMax \cup {SetKey(ss, "sort_by", k) : ss \in withMax, k \in SortByChoices}
        \cup {[max_results |-> 5]}

BS == [headless |-> TRUE]

\* configurations that differ in what search_flights reads
SearchConfigs ==
    {[flight_search |-> FS_ok, websites |-> ws, search_settings |-> ss,
      browser_settings |-> BS] :
        ws \in {[primary |-> p, fallback |-> f] :
                    p \in supported_websites, f \in FallbackLists}
               \cup {[primary |-> p] : p \in supported_websites},
        ss \in SettingsChoices}
    \cup {[flight_search |-> FS_no_passengers,
           websites |-> [primary |-> "booking", fallback |-> f],
           search_settings |-> SS_default, browser_settings |-> BS] :
             f \in {<<>>, <<"expedia">>}}

\* configurations that differ in what validate_config reads
ValidationConfigs ==
    {[flight_search |-> fs, websites |-> ws, search_settings |-> SS_default,
      browser_settings |-> BS] :
        fs \in FlightSearchChoices,
        ws \in {[primary |-> p, fallback |-> <<"expedia">>] : p \in PrimaryChoices}
               \cup {[fallback |-> <<"expedia">>]}}
    \cup {[flight_search |-> FS_ok, websites |-> [primary |-> "kayak", fallback |-> <<>>],
           search_settings |-> SS_default],
          [flight_search |-> FS_ok, search_settings |-> SS_default,
           browser_settings |-> BS]}

ConfigChoices == SearchConfigs \cup ValidationConfigs

\* Selenium installed; Selenium missing on an interpreter that evaluates annotations
\* when a function is defined; Selenium missing on one that evaluates them lazily
EnvChoices == {[selenium |-> TRUE, lazy_annotations |-> FALSE],
               [selenium |-> FALSE, lazy_annotations |-> FALSE],
               [selenium |-> FALSE, lazy_annotations |-> TRUE]}

T(h1, h2, m1, m2) == <<h1, h2, ":", m1, m2>>

\* what a Kayak result element can show
KayakElements ==
    { [broken |-> FALSE, airline |-> "Delta", times |-> <<T("0","8","0","0"), T("1","1","3","0")>>,
       duration_text |-> <<"3", "h", " ", "3", "0", "m">>,
       price_text |-> <<"$", "2", "5", "0">>, stops |-> "nonstop"],
      [broken |-> FALSE, airline |-> "United", times |-> <<T("0","6","1","5"), T("0","9","4","5")>>,
       duration_text |-> <<"3", "h", " ", "3", "0", "m">>,
       price_text |-> <<"$", "1", ",", "2", "3", "4">>, stops |-> "1 stop"],
      [broken |-> FALSE, airline |-> "JetBlue", times |-> <<>>,
       duration_text |-> <<"-", "-">>, price_text |-> <<>>, stops |-> "2 stops"],
      [broken |-> FALSE, airline |-> "Alaska", times |-> << <<>> >>,
       duration_text |-> <<"4", "5", "m">>,
       price_text |-> <<" ", "$", "2", "5", "0">>, stops |-> "nonstop"],
      [broken |-> TRUE, airline |-> "", times |-> <<>>, duration_text |-> <<>>,
       price_text |-> <<>>, stops |-> ""] }

Run(setup, get, wait, elements, quit) ==
    [setup |-> setup, get |-> get, wait |-> wait, elements |-> elements, quit |-> quit]

\* the runs of a browser-driven search: without Selenium _setup_driver raises
BrowserRuns(elements, e) ==
    {Run("raise", "ok", "ok", <<>>, "ok")}
    \cup IF ~e.selenium THEN {}
         ELSE {Run("ok", "raise", "ok", <<>>, "ok")}
              \cup {Run("ok", "ok", "timeout", <<>>, q) : q \in {"ok", "raise"}}
              \cup {Run("ok", "ok", "ok", l, "ok") :
                        l \in UNION {[1..k -> elements] : k \in 0..MaxElements}}
              \cup {Run("ok", "ok", "ok", <<x>>, "raise") : x \in elements}

\* random draws of one _generate_flight call
DrawChoices ==
    { [airline |-> "American Airlines", base_price |-> 200, jitter |-> 0 - 50,
       duration_minutes |-> 330, departure_hour |-> 6, departure_minute |-> 0,
       stops |-> "Nonstop", adjust |-> 50],
      [airline |-> "Spirit Airlines", base_price |-> 100, jitter |-> 0 - 50,
       duration_minutes |-> 390, departure_hour |-> 22, departure_minute |-> 45,
       stops |-> "2 stops", adjust |-> 100],
      [airline |-> "Delta Air Lines", base_price |-> 850, jitter |-> 100,
       duration_minutes |-> 330, departure_hour |-> 6, departure_minute |-> 0,
       stops |-> "1 stop", adjust |-> 0] }

\* the sequences of draws of one DemoFlightScraper.search_flights call
DemoRuns(cfg) ==
    IF "max_results" \notin DOMAIN cfg["search_settings"] THEN {<<>>}
    ELSE {draws \in [1..DemoCount(cfg) -> DrawChoices] :
             \A k \in 1..Len(draws) :
                 ValidDraw(draws[k], cfg["flight_search"]["source"],
                           cfg["flight_search"]["destination"])}

\* texts handed to the parsers
ParseAlphabet == {"0", "1", "5", ",", "h", "m", " ", "$"}
ParseExamples ==
    { <<"$", "1", ",", "2", "3", "4", " ", "r", "o", "u", "n", "d", " ", "t", "r", "i", "p">>,
      <<"g", "a", "r", "b", "l", "e", "d">>,
      <<"3", "h">>, <<"4", "5", "m">>, <<"5", "h", " ", "3", "0", "m">>,
      <<"1", "2", "m", " ", "3", "h", " ", "7", "h">> }
ParseInputs == Text(ParseAlphabet, MaxLen) \cup ParseExamples

----------------------------------------------------------------------------
(* The pipeline: main() of flight_scanner_agent.py                         *)

\* websites_to_try, line 51
WebsitesToTry(cfg) == <<cfg["websites"]["primary"]>> \o cfg["websites"]["fallback"]

\* the answers the scraper of this kind can give to the search_flights call of line 58
SearchResults(kind, cfg, e) ==
    LET source == cfg["flight_search"]["source"]
        destination == cfg["flight_search"]["destination"]
        travel_date == cfg["flight_search"]["travel_date"]
    IN  CASE kind = "kayak" ->
                 {KayakSearch(cfg, run, source, destination) :
                      run \in BrowserRuns(KayakElements, e)}
          [] kind = "expedia" ->
                 {ExpediaSearch(cfg, run) : run \in BrowserRuns({"offer"}, e)}
          [] kind = "booking" -> {BookingSearch}
          [] kind = "demo" ->
                 {DemoSearch(cfg, draws, source, destination, travel_date) :
                      draws \in DemoRuns(cfg)}

Outcome(pos, kind, flights) == [pos |-> pos, kind |-> kind, flights |-> flights]

ParserIdle == p_text = <<>> /\ p_fn = "none" /\ p_out = <<>>

GeneratorIdle ==
    g_source = <<>> /\ g_destination = <<>> /\ g_draw = <<>> /\ g_flight = <<>>

Init ==
    /\ env \in EnvChoices
    /\ config \in ConfigChoices
    /\ pc = "import"
    /\ idx = 0
    /\ scraper = "none"
    /\ created = <<>>
    /\ queried = <<>>
    /\ outcomes = <<>>
    /\ all_flights = <<>>
    /\ result = <<>>
    /\ search_state = "idle"
    /\ exit_code = 0 - 1
    /\ out = <<>>
    /\ ParserIdle
    /\ GeneratorIdle

\* import flight_scrapers: without Selenium the name webdriver is unbound, and the
\* annotation of _setup_driver raises NameError unless annotations are lazy
ImportModules ==
    /\ pc = "import"
    /\ IF env.selenium \/ env.lazy_annotations
       THEN pc' = "construct" /\ UNCHANGED <<exit_code, out>>
       ELSE pc' = "exit" /\ exit_code' = 1 /\ out' = Append(out, "traceback")
    /\ UNCHANGED <<env, config, idx, scraper, created, queried, outcomes, all_flights,
                   result, search_state>>
    /\ UNCHANGED parser_vars
    /\ UNCHANGED generator_vars

\* agent = FlightScannerAgent(): validate_config; main() prints the error it raises
\* and returns
Construct ==
    /\ pc = "construct"
    /\ IF validate_config(config) = "ok"
       THEN pc' = "search" /\ UNCHANGED <<exit_code, out>>
       ELSE pc' = "exit" /\ exit_code' = 0 /\ out' = Append(out, "Error")
    /\ UNCHANGED <<env, config, idx, scraper, created, queried, outcomes, all_flights,
                   result, search_state>>
    /\ UNCHANGED parser_vars
    /\ UNCHANGED generator_vars

\* search_flights, lines 45-51: a websites section without fallback raises KeyError,
\* which main() prints
SearchBegin ==
    /\ pc = "search"
    /\ IF "fallback" \in DOMAIN config["websites"]
       THEN /\ pc' = "loop" /\ idx' = 1 /\ search_state' = "running"
            /\ UNCHANGED <<exit_code, out>>
       ELSE /\ pc' = "exit" /\ search_state' = "raised" /\ exit_code' = 0
            /\ out' = Append(out, "Error")
            /\ UNCHANGED idx
    /\ UNCHANGED <<env, config, scraper, created, queried, outcomes, all_flights, result>>
    /\ UNCHANGED parser_vars
    /\ UNCHANGED generator_vars

\* line 56: an exception of the factory is caught and the loop continues
CreateScraper ==
    /\ pc = "loop" /\ scraper = "none" /\ idx <= Len(WebsitesToTry(config))
    /\ created' = Append(created, idx)
    /\ LET kind == create_scraper(WebsitesToTry(config)[idx], config, env)
       IN  IF kind = "raise"
           THEN /\ outcomes' = Append(outcomes, Outcome(idx, "raised", <<>>))
                /\ idx' = idx + 1
                /\ UNCHANGED scraper
           ELSE /\ scraper' = kind
                /\ UNCHANGED <<outcomes, idx>>
    /\ UNCHANGED <<env, config, pc, queried, all_flights, result, search_state,
                   exit_code, out>>
    /\ UNCHANGED parser_vars
    /\ UNCHANGED generator_vars

\* faulty variant of Breaks: the break is missing, every website is tried
Breaks_never(r) == FALSE

\* faulty variant of Breaks: any call that returns ends the loop, an empty list too
Breaks_on_any_return(r) == ~r.raised

\* line 67, `if flights:`: the answer that ends the loop
Breaks(r) == ~r.raised /\ r.flights # <<>>

\* what the history records of an answer
OutcomeKind(r) ==
    IF r.raised THEN "raised" ELSE IF r.flights = <<>> THEN "empty" ELSE "nonempty"

\* lines 58-74: the arguments are read (KeyError when passengers or class is absent),
\* the scraper is queried; a non-empty answer is taken and ends the loop, an empty one
\* or an exception moves to the next website
QueryScraper ==
    /\ pc = "loop" /\ scraper # "none"
    /\ scraper' = "none"
    /\ IF ~({"passengers", "class"} \subseteq DOMAIN config["flight_search"])
       THEN /\ outcomes' = Append(outcomes, Outcome(idx, "raised", <<>>))
            /\ idx' = idx + 1
            /\ UNCHANGED <<queried, all_flights, pc>>
       ELSE \E r \in SearchResults(scraper, config, env) :
            /\ queried' = Append(queried, idx)
            /\ outcomes' = Append(outcomes, Outcome(idx, OutcomeKind(r), r.flights))
            /\ IF Breaks(r)
               THEN /\ all_flights' = all_flights \o r.flights
                    /\ pc' = "post"
                    /\ UNCHANGED idx
               ELSE /\ idx' = idx + 1
                    /\ UNCHANGED <<all_flights, pc>>
    /\ UNCHANGED <<env, config, created, result, search_state, exit_code, out>>
    /\ UNCHANGED parser_vars
    /\ UNCHANGED generator_vars

\* the for loop ran out of websites
LoopEnd ==
    /\ pc = "loop" /\ scraper = "none" /\ idx > Len(WebsitesToTry(config))
    /\ pc' = "post"
    /\ UNCHANGED <<env, config, idx, scraper, created, queried, outcomes, all_flights,
                   result, search_state, exit_code, out>>
    /\ UNCHANGED parser_vars
    /\ UNCHANGED generator_vars

\* lines 76-91: search_flights returns
Return ==
    /\ pc = "post"
    /\ result' = PostProcess(all_flights, config)
    /\ search_state' = "returned"
    /\ pc' = "display"
    /\ UNCHANGED <<env, config, idx, scraper, created, queried, outcomes, all_flights,
                   exit_code, out>>
    /\ UNCHANGED parser_vars
    /\ UNCHANGED generator_vars

\* agent.display_results(flights)
DisplayResults ==
    /\ pc = "display"
    /\ out' = Append(out, IF result = <<>> THEN "No flights found." ELSE "results")
    /\ pc' = "save"
    /\ UNCHANGED <<env, config, idx, scraper, created, queried, outcomes, all_flights,
                   result, search_state, exit_code>>
    /\ UNCHANGED parser_vars
    /\ UNCHANGED generator_vars

\* faulty variant of SaveResults: a failed write is not caught in save_results, and
\* main() reports it as an error
SaveResults_fatal ==
    /\ pc = "save"
    /\ \E written \in BOOLEAN :
           out' = IF written THEN Append(out, "Results saved") ELSE Append(out, "Error")
    /\ pc' = "exit"
    /\ exit_code' = 0
    /\ UNCHANGED <<env, config, idx, scraper, created, queried, outcomes, all_flights,
                   result, search_state>>
    /\ UNCHANGED parser_vars
    /\ UNCHANGED generator_vars

\* agent.save_results(flights): a failed write is logged and swallowed; main() returns
SaveResults ==
    /\ pc = "save"
    /\ \E written \in BOOLEAN :
           out' = IF written THEN Append(out, "Results saved") ELSE out
    /\ pc' = "exit"
    /\ exit_code' = 0
    /\ UNCHANGED <<env, config, idx, scraper, created, queried, outcomes, all_flights,
                   result, search_state>>
    /\ UNCHANGED parser_vars
    /\ UNCHANGED generator_vars

Next ==
    \/ ImportModules
    \/ Construct
    \/ SearchBegin
    \/ CreateScraper
    \/ QueryScraper
    \/ LoopEnd
    \/ Return
    \/ DisplayResults
    \/ SaveResults

Spec == Init /\ [][Next]_vars

----------------------------------------------------------------------------
(* The parsers on their own: a text is chosen, then one parser is applied  *)

ParseInit ==
    /\ env = [selenium |-> TRUE, lazy_annotations |-> FALSE]
    /\ config = [flight_search |-> FS_ok,
                 websites |-> [primary |-> "kayak", fallback |-> <<>>],
                 search_settings |-> SS_default, browser_settings |-> BS]
    /\ pc = "idle"
    /\ idx = 0
    /\ scraper = "none"
    /\ created = <<>>
    /\ queried = <<>>
    /\ outcomes = <<>>
    /\ all_flights = <<>>
    /\ result = <<>>
    /\ search_state = "idle"
    /\ exit_code = 0 - 1
    /\ out = <<>>
    /\ p_text \in ParseInputs
    /\ p_fn = "none"
    /\ p_out = <<>>
    /\ GeneratorIdle

ParsePrice ==
    /\ p_fn = "none"
    /\ p_fn' = "price"
    /\ p_out' = _parse_price(p_text)
    /\ UNCHANGED p_text
    /\ UNCHANGED pipeline_vars
    /\ UNCHANGED generator_vars

ParseDuration ==
    /\ p_fn = "none"
    /\ p_fn' = "duration"
    /\ p_out' = _parse_duration(p_text)
    /\ UNCHANGED p_text
    /\ UNCHANGED pipeline_vars
    /\ UNCHANGED generator_vars

ParseNext == ParsePrice \/ ParseDuration

SpecParse == ParseInit /\ [][ParseNext]_vars

----------------------------------------------------------------------------
(* The demo generator on its own: a route and the random draws are chosen, *)
(* then _generate_flight is called once                                    *)

\* routes handed to the generator: every route of the table in both directions, in
\* upper, lower and mixed case, and routes the table does not hold
DemoRoutes ==
    {r : r \in DOMAIN flight_durations}
    \cup {<<r[2], r[1]>> : r \in DOMAIN flight_durations}
    \cup { <<<<"l", "a", "x">>, <<"n", "y", "c">>>>,
           <<<<"N", "y", "c">>, <<"L", "a", "x">>>>,
           <<NYC, SEA>>, <<MIA, CHI>>, <<NYC, NYC>>,
           <<<<"s", "f", "o">>, <<"b", "o", "s">>>> }

\* the ends and the middle of a range of random.randint
Samples(range) == {range[1], (range[1] + range[2]) \div 2, range[2]}

\* the stops drawn by random.choices, with the price adjustment drawn for them
StopsDraws ==
    { <<"Nonstop", 50>>, <<"Nonstop", 150>>, <<"1 stop", 0>>,
      <<"2 stops", 30>>, <<"2 stops", 100>> }

\* departure hour and minute drawn
DepartureDraws == { <<6, 0>>, <<18, 0>>, <<22, 45>> }

\* draws of one _generate_flight call, at the ends of every range the call draws from
GenDraws(source, destination) ==
    LET durations == Samples(DurationRange(source, destination))
    IN  UNION { { [airline |-> a, base_price |-> b, jitter |-> j,
                   duration_minutes |-> m,
                   departure_hour |-> t[1], departure_minute |-> t[2],
                   stops |-> st[1], adjust |-> st[2]] :
                     b \in {airlines[a][1], airlines[a][2]}, j \in {0 - 50, 100},
                     m \in durations, t \in DepartureDraws, st \in StopsDraws } :
                a \in DOMAIN airlines }

GenerateInit ==
    /\ env = [selenium |-> FALSE, lazy_annotations |-> TRUE]
    /\ config = [flight_search |-> FS_ok,
                 websites |-> [primary |-> "kayak", fallback |-> <<"demo">>],
                 search_settings |-> SS_default, browser_settings |-> BS]
    /\ pc = "idle"
    /\ idx = 0
    /\ scraper = "none"
    /\ created = <<>>
    /\ queried = <<>>
    /\ outcomes = <<>>
    /\ all_flights = <<>>
    /\ result = <<>>
    /\ search_state = "idle"
    /\ exit_code = 0 - 1
    /\ out = <<>>
    /\ ParserIdle
    /\ \E r \in DemoRoutes :
           /\ g_source = r[1]
           /\ g_destination = r[2]
           /\ g_draw \in GenDraws(r[1], r[2])
    /\ g_flight = <<>>

\* flight = self._generate_flight(source, destination, travel_date)
GenerateFlight ==
    /\ g_flight = <<>>
    /\ g_flight' = <<_generate_flight(g_source, g_destination,
                                      config["flight_search"]["travel_date"], g_draw)>>
    /\ UNCHANGED <<g_source, g_destination, g_draw>>
    /\ UNCHANGED pipeline_vars
    /\ UNCHANGED parser_vars

SpecDemo == GenerateInit /\ [][GenerateFlight]_vars

----------------------------------------------------------------------------
(* Properties of the field parsers, under SpecParse                        *)

HasDigit(s) == \E k \in 1..Len(s) : s[k] \in Digits

\* s[i..j] is the first maximal run of digits of s
FirstDigitRun(s, i, j) ==
    /\ i <= j
    /\ \A k \in i..j : s[k] \in Digits
    /\ \A k \in 1..(i - 1) : s[k] \notin Digits
    /\ j = Len(s) \/ s[j + 1] \notin Digits

\* s[i..j] is the leftmost run of digits of s that is directly followed by ch
FirstRunBefore(s, i, j, ch) ==
    /\ i <= j /\ j < Len(s)
    /\ \A k \in i..j : s[k] \in Digits
    /\ s[j + 1] = ch
    /\ i = 1 \/ s[i - 1] \notin Digits
    /\ \A a \in 1..(i - 1) : \A b \in a..(Len(s) - 1) :
           ~((\A k \in a..b : s[k] \in Digits) /\ s[b + 1] = ch)

\* the number of the first '<N>ch' match, 0 when there is none
FirstCount(s, ch) ==
    IF \E i, j \in 1..Len(s) : FirstRunBefore(s, i, j, ch)
    THEN LET ij == CHOOSE ij \in (1..Len(s)) \X (1..Len(s)) :
                       FirstRunBefore(s, ij[1], ij[2], ch)
         IN  ToNat(SubSeq(s, ij[1], ij[2]))
    ELSE 0

Dollar1234RoundTrip ==
    <<"$", "1", ",", "2", "3", "4", " ", "r", "o", "u", "n", "d", " ", "t", "r", "i", "p">>

\* C8: _parse_price returns a pair for every text; with a digit in the text the number
\* is the first run of digits of the text without its commas, read as a number
\* ("$1,234 round trip" gives 1234); without a digit, or for the empty text, it is
\* float('inf').
C8_ParsePrice ==
    p_fn = "price" =>
        /\ Len(p_out) = 2
        /\ IsNum(p_out[2])
        /\ LET t == Remove(p_text, ",")
           IN  IF HasDigit(p_text)
               THEN \E i, j \in 1..Len(t) :
                        FirstDigitRun(t, i, j) /\ p_out[2] = Fin(ToNat(SubSeq(t, i, j)))
               ELSE p_out[2] = INF
        /\ p_text = Dollar1234RoundTrip => p_out[2] = Fin(1234)

C8_Witness ==
    p_fn = "price" /\ p_text = Dollar1234RoundTrip /\ p_out[2] = Fin(1234)

\* C9: _parse_duration returns a pair for every text; with H the number of the first
\* '<N>h' match and M that of the first '<N>m' match (0 when absent) the minutes are
\* H*60 + M when that is positive and float('inf') otherwise ("3h" gives 180, "45m"
\* gives 45, "garbled" gives float('inf')).
C9_ParseDuration ==
    p_fn = "duration" =>
        /\ Len(p_out) = 2
        /\ IsNum(p_out[2])
        /\ LET total == FirstCount(p_text, "h") * 60 + FirstCount(p_text, "m")
           IN  p_out[2] = IF total > 0 THEN Fin(total) ELSE INF
        /\ p_text = <<"3", "h">> => p_out[2] = Fin(180)
        /\ p_text = <<"4", "5", "m">> => p_out[2] = Fin(45)
        /\ p_text = <<"g", "a", "r", "b", "l", "e", "d">> => p_out[2] = INF

C9_Witness ==
    /\ p_fn = "duration"
    /\ p_text = <<"5", "h", " ", "3", "0", "m">>
    /\ p_out = <<p_text, Fin(330)>>

----------------------------------------------------------------------------
(* Properties of the pipeline, under Spec                                  *)

\* search_settings.sort_by and max_results as search_flights reads them
ConfiguredSortBy == Get(config["search_settings"], "sort_by", "price")
ConfiguredMax == Get(config["search_settings"], "max_results", 10)

Accepted(k) == k \in 1..Len(outcomes) /\ outcomes[k].kind = "nonempty"
NoneAccepted == \A k \in 1..Len(outcomes) : outcomes[k].kind # "nonempty"

\* C1: once the source at position k has returned a non-empty list, no source at a
\* later position is created or queried, and the records search_flights returns all
\* come from source k.
C1_FirstSuccessWins ==
    \A k \in 1..Len(outcomes) :
        Accepted(k) =>
            /\ \A m \in 1..Len(created) : created[m] <= outcomes[k].pos
            /\ \A m \in 1..Len(queried) : queried[m] <= outcomes[k].pos
            /\ \A m \in 1..Len(outcomes) : outcomes[m].pos <= outcomes[k].pos
            /\ search_state = "returned" =>
                   \A i \in 1..Len(result) :
                       \E j \in 1..Len(outcomes[k].flights) :
                           result[i] = outcomes[k].flights[j]

C1_Witness ==
    /\ search_state = "returned"
    /\ Len(WebsitesToTry(config)) > 1
    /\ Accepted(1)
    /\ result # <<>>
    /\ created = <<1>> /\ queried = <<1>>

\* C2: the sources are tried strictly in list order, each position at most once; after
\* a source returned an empty list or raised, the loop has moved past it and
\* search_flights has not raised; when every source ended empty or failed, every
\* position was tried and search_flights returns the empty list.
C2_FallbackOnEmptyOrFailure ==
    /\ \A m \in 1..Len(created) : created[m] = m
    /\ \A m \in 1..Len(queried) :
           /\ queried[m] \in 1..Len(created)
           /\ m > 1 => queried[m - 1] < queried[m]
    /\ \A k \in 1..Len(outcomes) :
           outcomes[k].kind \in {"empty", "raised"} =>
               idx > outcomes[k].pos /\ search_state # "raised"
    /\ (created # <<>> /\ NoneAccepted /\ pc \notin {"loop"}) =>
           /\ Len(created) = Len(WebsitesToTry(config))
           /\ Len(outcomes) = Len(WebsitesToTry(config))
           /\ search_state \in {"running", "returned"}
           /\ search_state = "returned" => result = <<>>

C2_Witness ==
    /\ search_state = "returned"
    /\ result = <<>>
    /\ Len(outcomes) = 2
    /\ outcomes[1].kind = "empty"
    /\ outcomes[2].kind = "raised"
    /\ created = <<1, 2>>

\* C3 as stated: for any configured max_results (10 when absent) the returned list is
\* no longer than max_results.
C3_Original ==
    search_state = "returned" => Len(result) <= ConfiguredMax

\* C3, amended: for any configured max_results >= 0 (10 when absent) the returned list
\* is no longer than max_results.
C3_LengthAtMostMax ==
    (search_state = "returned" /\ ConfiguredMax >= 0) => Len(result) <= ConfiguredMax

C3_Witness ==
    /\ search_state = "returned"
    /\ ConfiguredMax >= 0
    /\ Len(all_flights) > ConfiguredMax
    /\ Len(result) = ConfiguredMax

SortKeys == {"price", "duration", "departure_time"}

\* a's key is strictly smaller than b's, the key being the field the claim names
KeyBefore(a, b) ==
    CASE ConfiguredSortBy = "price" -> NumLT(a.price_numeric, b.price_numeric)
      [] ConfiguredSortBy = "duration" -> NumLT(a.duration_minutes, b.duration_minutes)
      [] ConfiguredSortBy = "departure_time" -> StrLT(a.departure_time, b.departure_time)

Count(s, x) == Cardinality({i \in 1..Len(s) : s[i] = x})
Min(a, b) == IF a < b THEN a ELSE b

\* C4: when a non-empty source result is accepted and sort_by is 'price' (or absent),
\* 'duration' or 'departure_time', the returned list is in ascending order of that key,
\* holds only records of the accepted result, each no more often than there, no
\* record left out has a strictly smaller key than a record kept, and with
\* max_results >= 0 the list has min(max_results, number accepted) records.
C4_SortThenTruncate ==
    (search_state = "returned" /\ all_flights # <<>> /\ ConfiguredSortBy \in SortKeys) =>
        /\ \A i, j \in 1..Len(result) : i < j => ~KeyBefore(result[j], result[i])
        /\ \A i \in 1..Len(result) :
               /\ Count(all_flights, result[i]) >= Count(result, result[i])
               /\ \A m \in 1..Len(all_flights) :
                      Count(result, all_flights[m]) < Count(all_flights, all_flights[m])
                          => ~KeyBefore(all_flights[m], result[i])
        /\ ConfiguredMax >= 0 => Len(result) = Min(ConfiguredMax, Len(all_flights))

\* a list was accepted, sorting changed its order, and a record was cut
C4_Witness ==
    /\ search_state = "returned"
    /\ ConfiguredSortBy \in SortKeys
    /\ Len(all_flights) = 2 /\ Len(result) = 1
    /\ result[1] = all_flights[2]
    /\ KeyBefore(all_flights[2], all_flights[1])

\* the record carries no known value of the sort key: the key is absent, or it is the
\* sentinel (float('inf'), "N/A"), or it is the empty text
Unknown(x) ==
    CASE ConfiguredSortBy = "price" ->
             "price_numeric" \notin DOMAIN x \/ x.price_numeric = INF
      [] ConfiguredSortBy = "duration" ->
             "duration_minutes" \notin DOMAIN x \/ x.duration_minutes = INF
      [] ConfiguredSortBy = "departure_time" ->
             "departure_time" \notin DOMAIN x \/ x.departure_time \in {NA, <<>>}

\* C5 as stated: under each of the three orderings the sort is stable, and every
\* record without a known value of the key comes after every record with one.
C5_Original ==
    (search_state = "returned" /\ all_flights # <<>> /\ ConfiguredSortBy \in SortKeys) =>
        /\ \A i, j \in 1..Len(result) :
               (i < j /\ result[i] # result[j] /\ ~KeyBefore(result[i], result[j])) =>
                   \E a, b \in 1..Len(all_flights) :
                       a < b /\ all_flights[a] = result[i] /\ all_flights[b] = result[j]
        /\ \A i, j \in 1..Len(result) :
               (i < j /\ Unknown(result[i])) => Unknown(result[j])

\* C6 as stated: NYC to LAX, max_results 5, sort by price, the primary site's adapter
\* answers with an empty list, the one fallback entry names the demo generator: the
\* search returns 5 records in ascending order of price_numeric, all 'Demo Data'.
C6_Original ==
    (/\ search_state = "returned"
     /\ config["flight_search"]["source"] = NYC
     /\ config["flight_search"]["destination"] = LAX
     /\ ConfiguredMax = 5 /\ ConfiguredSortBy = "price"
     /\ Len(WebsitesToTry(config)) = 2 /\ WebsitesToTry(config)[2] = "demo"
     /\ outcomes # <<>> /\ outcomes[1].kind = "empty") =>
        /\ Len(result) = 5
        /\ \A i, j \in 1..Len(result) :
               i < j => ~NumLT(result[j].price_numeric, result[i].price_numeric)
        /\ \A i \in 1..Len(result) : result[i].website = "Demo Data"

FlightFields ==
    {"airline", "departure_time", "arrival_time", "duration", "duration_minutes",
     "price", "price_numeric", "stops", "departure_airport", "arrival_airport",
     "website"}

\* C7 as stated: every record an adapter returns carries all eleven fields, with
\* price_numeric and duration_minutes numbers (finite or float('inf')).
C7_Original ==
    \A k \in 1..Len(outcomes) :
        \A i \in 1..Len(outcomes[k].flights) :
            /\ DOMAIN outcomes[k].flights[i] = FlightFields
            /\ IsNum(outcomes[k].flights[i].price_numeric)
            /\ IsNum(outcomes[k].flights[i].duration_minutes)

\* C10 as stated: a configuration that validate_config rejects is rejected while the
\* agent is constructed, before any scraper is created or queried, the error is
\* reported, and the process exits with a non-zero status.
C10_Original ==
    (pc = "exit" /\ (env.selenium \/ env.lazy_annotations)
     /\ validate_config(config) # "ok") =>
        /\ created = <<>> /\ queried = <<>> /\ search_state = "idle"
        /\ out = <<"Error">>
        /\ exit_code # 0

----------------------------------------------------------------------------
(* The adapters as the aggregator sees them                                *)

\* the website name at a position of websites_to_try
SiteAt(pos) == Lower(WebsitesToTry(config)[pos])

\* the scraper at this position was queried (its search_flights was called)
WasQueried(pos) == \E m \in 1..Len(queried) : queried[m] = pos

\* C11 as stated: every internal failure of the Kayak and Expedia adapters, driver
\* shutdown included, is caught inside the adapter: their search_flights never raises
\* to its caller.
C11_Original ==
    \A k \in 1..Len(outcomes) :
        (WasQueried(outcomes[k].pos) /\ SiteAt(outcomes[k].pos) \in {"kayak", "expedia"})
            => outcomes[k].kind # "raised"

----------------------------------------------------------------------------
(* Reporting and saving                                                    *)

\* what display_results prints for the list search_flights returned
Displayed == IF result = <<>> THEN "No flights found." ELSE "results"

\* C12: in the main pipeline display_results runs before save_results; a failed write
\* of the snapshot raises nothing (no error is reported, main() ends normally), and
\* what was displayed stays as it was.
C12_SaveFailureNotFatal ==
    /\ pc = "save" => out = <<Displayed>>
    /\ (pc = "exit" /\ search_state = "returned") =>
           /\ out \in {<<Displayed>>, <<Displayed, "Results saved">>}
           /\ exit_code = 0

\* the search found flights, they were displayed, and the write of the snapshot failed
C12_Witness ==
    /\ pc = "exit" /\ search_state = "returned"
    /\ result # <<>>
    /\ out = <<"results">>

\* C13 as stated, on the values of max_results a list length can meet (>= 0): the list
\* an adapter's search_flights returns is no longer than search_settings.max_results.
C13_Original ==
    \A k \in 1..Len(outcomes) :
        (/\ WasQueried(outcomes[k].pos)
         /\ "max_results" \in DOMAIN config["search_settings"]
         /\ config["search_settings"]["max_results"] >= 0)
            => Len(outcomes[k].flights) <= config["search_settings"]["max_results"]

----------------------------------------------------------------------------
(* Properties of the demo generator, under SpecDemo                        *)

\* the route table of the generator as the specification gives it: two airports and
\* the range of minutes between them, in either direction
RouteTable ==
    { <<{NYC, LAX}, 330, 390>>, <<{NYC, CHI}, 150, 180>>, <<{LAX, CHI}, 240, 280>>,
      <<{NYC, MIA}, 180, 220>>, <<{LAX, SEA}, 150, 180>> }

\* the airports of the call, letter case aside
CalledPair == {Upper(g_source), Upper(g_destination)}

\* C14: for a known route pair, in either direction and any letter case,
\* duration_minutes of the generated record lies in the pair's table range; for a pair
\* the table does not hold it lies in [120, 480].
C14_DurationInRange ==
    g_flight # <<>> =>
        LET m == g_flight[1].duration_minutes
        IN  /\ IsFinite(m)
            /\ \A r \in RouteTable : r[1] = CalledPair => (r[2] <= m[2] /\ m[2] <= r[3])
            /\ (\A r \in RouteTable : r[1] # CalledPair) => (120 <= m[2] /\ m[2] <= 480)

\* a record was generated for lax to nyc, the table's NYC/LAX route reversed and in
\* lower case
C14_Witness ==
    /\ g_flight # <<>>
    /\ g_source = <<"l", "a", "x">> /\ g_destination = <<"n", "y", "c">>
    /\ g_flight[1].duration_minutes = Fin(390)

\* a minute of the day in HH:MM form
Clock(t) == Pad2(t \div 60) \o <<":">> \o Pad2(t % 60)

\* the departure drawn, in minutes after midnight
DepartureMinute == g_draw.departure_hour * 60 + g_draw.departure_minute

\* C16: with departure at d minutes after midnight and a duration of m minutes, the
\* arrival shown is the clock time (d + m) mod 1440 as HH:MM, followed by " +1" exactly
\* when d + m >= 1440, and the arrival is within one calendar day of the departure.
C16_ArrivalTime ==
    g_flight # <<>> =>
        LET d == DepartureMinute
            m == g_flight[1].duration_minutes[2]
            shown == g_flight[1].arrival_time
        IN  /\ g_flight[1].departure_time = Clock(d)
            /\ d + m < 2 * 1440
            /\ d + m < 1440 => shown = Clock(d + m)
            /\ d + m >= 1440 => shown = Clock((d + m) % 1440) \o <<" ", "+", "1">>

\* a flight that lands at midnight exactly: 18:00 and 360 minutes
C16_Witness ==
    /\ g_flight # <<>>
    /\ DepartureMinute + g_flight[1].duration_minutes[2] = 1440
    /\ g_flight[1].arrival_time = <<"0", "0", ":", "0", "0", " ", "+", "1">>

\* C17 as stated: for every record the generator can emit, _parse_price of its price
\* gives its price_numeric and _parse_duration of its duration gives its
\* duration_minutes.
C17_Original ==
    g_flight # <<>> =>
        /\ _parse_price(g_flight[1].price)[2] = g_flight[1].price_numeric
        /\ _parse_duration(g_flight[1].duration)[2] = g_flight[1].duration_minutes

----------------------------------------------------------------------------
(* The aggregator's result against the accepted source's list              *)

\* C15: every record search_flights returns is one of the records the accepted source
\* returned, with every field as the source gave it, and no record occurs more often
\* in the result than in that source's list; with no source accepted nothing is
\* returned.
C15_RecordsUnchanged ==
    search_state = "returned" =>
        IF NoneAccepted THEN result = <<>>
        ELSE \E k \in 1..Len(outcomes) :
                 /\ Accepted(k)
                 /\ \A i \in 1..Len(result) :
                        /\ \E j \in 1..Len(outcomes[k].flights) :
                               /\ DOMAIN result[i] = DOMAIN outcomes[k].flights[j]
                               /\ result[i] = outcomes[k].flights[j]
                        /\ Count(result, result[i]) <= Count(outcomes[k].flights, result[i])

\* the accepted source's two records came back in the other order
C15_Witness ==
    /\ search_state = "returned"
    /\ Accepted(1) /\ Len(outcomes[1].flights) = 2
    /\ Len(result) = 2
    /\ result[1] = outcomes[1].flights[2]
    /\ result[2] = outcomes[1].flights[1]
    /\ result[1] # result[2]

\* C18 as stated: a configuration on which validate_config returns normally never
\* makes search_flights raise.
C18_Original ==
    validate_config(config) = "ok" => search_state # "raised"

\* C19: when sort_by is none of 'price', 'duration', 'departure_time', search_flights
\* raises nothing and returns the accepted source's records in the order the source
\* returned them: a prefix of that list, the first max_results records when
\* max_results >= 0.
C19_UnknownSortKeepsOrder ==
    (search_state = "returned" /\ ConfiguredSortBy \notin SortKeys) =>
        /\ Len(result) <= Len(all_flights)
        /\ result = SubSeq(all_flights, 1, Len(result))
        /\ ConfiguredMax >= 0 => Len(result) = Min(ConfiguredMax, Len(all_flights))
        /\ \A k \in 1..Len(outcomes) : Accepted(k) => all_flights = outcomes[k].flights

\* sort_by is 'airline', and the two records returned are not in order of price
C19_Witness ==
    /\ search_state = "returned"
    /\ ConfiguredSortBy = "airline"
    /\ Len(result) = 2 /\ result = all_flights
    /\ NumLT(result[2].price_numeric, result[1].price_numeric)

=============================================================================
